---- MODULE Spec2Model ----
(***************************************************************************)
(* GolazoAlerts: the opportunity detector (GoldenMomentDetector), the      *)
(* model loading of the Predictor and the monitoring orchestrator          *)
(* (GoldenAlertsController).                                               *)
(*                                                                         *)
(* Numbers.  Probabilities and confidences are percentages (0.85 -> 85),   *)
(* decimal odds are hundredths (1.80 -> 180), an expected value is in      *)
(* units of 1/10000 (0.10 -> 1000), wall-clock time is in seconds.         *)
(***************************************************************************)
EXTENDS Integers, Sequences, FiniteSets, TLC

VARIABLES
    \* ---- opportunity detector: one detectGoldenMoment call
    detSnap,      \* the snapshot getMatchLiveData returned (avail = FALSE: null)
    detPlan,      \* the userPlan argument
    detPhase,     \* "input" before the call, "done" after it
    detOpps,      \* what evaluateAllMarkets returned during the call
    detFiltered,  \* what filterByConfidence returned during the call
    detResult,    \* the returned value: <<>> for null, <<opportunity>> otherwise
    \* ---- Predictor: model loading
    modelsLoaded,     \* Predictor.modelsLoaded
    isLoadingModels,  \* Predictor.isLoadingModels
    models,           \* the markets m with this.models[m] set
    modelFiles,       \* the markets whose model.json tf.loadLayersModel can load
    calls,            \* the predict() and loadModels() calls, each with its position
    loadBodyRuns,     \* how many times the body of loadModels was entered
    \* ---- GoldenAlertsController and its environment
    now,                 \* Date.now(), in seconds
    status,              \* the status the data source reports for each fixture
    isRunning,           \* this.isRunning
    monitoringInterval,  \* this.monitoringInterval: the start() call that set it, 0 for null
    starts,              \* the start() calls and the interval timers they installed
    activeMonitoring,    \* this.activeMonitoring: fixture -> monitoring object, 0 for absent
    objs,                \* the monitoring objects
    cycles,              \* the runMonitoringCycle invocations
    tasks,               \* the processMatch calls of each invocation
    timers,              \* the pending setTimeout deliveries
    \* ---- Predictor.predict and RuleEngine.evaluate: one call
    fuMarket,   \* the market argument
    fuSnap,     \* the matchData argument
    fuMl,       \* what the learned estimator of the market does in this call
    fuPhase,    \* "input" before the call, "done" after it
    fuRules,    \* what RuleEngine.evaluate returns for the arguments
    fuRet,      \* what Predictor.predict returned
    \* ---- MatchSelector.selectMatchesToMonitor: one call
    selMatches, \* what getAvailableMatches returned, with the scores of each match
    selPlan,    \* the userPlan argument
    selConfig,  \* matches.selectionWeights as configured in app-config
    selPhase,   \* "input" before the call, "done" after it
    selOut,     \* the returned list
    \* ---- GoldenMomentDetector.getMatchLiveData: one call
    liveIn,     \* how each call made during the retrieval ends
    livePhase,  \* "input" before the call, "done" after it
    liveOut,    \* the returned value: "null", "stored" or "combined"
    \* ---- one selection pass of runMonitoringCycle on a given active set
    updBefore,  \* the active set and its monitoring objects before the pass
    updSel,     \* the fixtures the selector returns
    updFinal,   \* match.scores.final of each fixture it returns
    \* ---- FootballApiClient
    requestCount,  \* this.requestCount: daily and lastReset (a day number)
    today,         \* the calendar day of the clock
    requests,      \* the makeRequest calls: position and last returned value
    issued         \* the HTTP requests sent upstream during the day `today`

detVars == <<detSnap, detPlan, detPhase, detOpps, detFiltered, detResult>>

predVars == <<modelsLoaded, isLoadingModels, models, modelFiles, calls, loadBodyRuns>>

ctlVars == <<now, status, isRunning, monitoringInterval, starts, activeMonitoring,
             objs, cycles, tasks, timers>>

fuVars == <<fuMarket, fuSnap, fuMl, fuPhase, fuRules, fuRet>>

selVars == <<selMatches, selPlan, selConfig, selPhase, selOut>>

liveVars == <<liveIn, livePhase, liveOut>>

updVars == <<updBefore, updSel, updFinal>>

apiVars == <<requestCount, today, requests, issued>>

vars == <<detSnap, detPlan, detPhase, detOpps, detFiltered, detResult,
          modelsLoaded, isLoadingModels, models, modelFiles, calls, loadBodyRuns,
          now, status, isRunning, monitoringInterval, starts, activeMonitoring,
          objs, cycles, tasks, timers,
          fuMarket, fuSnap, fuMl, fuPhase, fuRules, fuRet,
          selMatches, selPlan, selConfig, selPhase, selOut,
          liveIn, livePhase, liveOut,
          updBefore, updSel, updFinal,
          requestCount, today, requests, issued>>

(***************************************************************************)
(* GoldenMomentDetector: constructor state                                 *)
(***************************************************************************)
markets == <<"nextGoal", "over05", "over15", "over25", "btts", "cornerNext10Min">>

MarketSet == {markets[i] : i \in 1..Len(markets)}

Plans == {"free", "insider", "estratega"}

confidenceThresholds == [free |-> 85, insider |-> 75, estratega |-> 65]

minExpectedValue == 1000

(***************************************************************************)
(* Inputs of one detection call.  For each market: pred is what            *)
(* predictMarket returned (present = FALSE: a falsy value, or the          *)
(* evaluation of the market threw), prices lists, bookmaker by bookmaker,  *)
(* the price of the market's mapped outcome (0: the bookmaker has no such  *)
(* market, outcome or price).                                              *)
(***************************************************************************)
NoPrediction == [present |-> FALSE, probability |-> 0, confidence |-> 0]

Probabilities == {50, 60}

Confidences == {70, 80, 90}

PriceLists == {<<220>>, <<180, 220>>, <<0, 180>>}

Predictions ==
    {[present |-> TRUE, probability |-> p, confidence |-> c] :
        p \in Probabilities, c \in Confidences}

\* A market no bookmaker prices.
UnpricedMarket == [pred |-> [present |-> TRUE, probability |-> 50, confidence |-> 70],
                   prices |-> <<>>]

PricedMarkets ==
    {[pred |-> pr, prices |-> pl] : pr \in Predictions, pl \in PriceLists}
        \cup {[pred |-> NoPrediction, prices |-> <<220>>]}

\* At most MaxPricedMarkets markets of a snapshot are priced by a bookmaker.
MaxPricedMarkets == 2

NoSnapshot == [avail |-> FALSE, mk |-> [m \in MarketSet |-> UnpricedMarket]]

\* The snapshot in which the markets of S carry the inputs f and no other
\* market is priced.
SnapshotOf(S, f) ==
    [avail |-> TRUE,
     mk |-> [m \in MarketSet |-> IF m \in S THEN f[m] ELSE UnpricedMarket]]

PricedSets == {T \in SUBSET MarketSet : Cardinality(T) <= MaxPricedMarkets}

(***************************************************************************)
(* GoldenMomentDetector                                                    *)
(***************************************************************************)
\* utils/odds-calculator.calculateExpectedValue on the best price.
calculateExpectedValue(probability, price) == probability * price - 10000

\* getOddsForMarket: the best price over the bookmakers, 0 for null.
RECURSIVE bestOddsOf(_, _)
bestOddsOf(prices, best) ==
    IF prices = <<>> THEN best
    ELSE LET price == Head(prices) IN
         IF price # 0 /\ (best = 0 \/ price > best)
         THEN bestOddsOf(Tail(prices), price)
         ELSE bestOddsOf(Tail(prices), best)

getOddsForMarket(market, matchData) == bestOddsOf(matchData.mk[market].prices, 0)

predictMarket(market, matchData) == matchData.mk[market].pred

\* A filter that admits every positive expected value.
passesMinEV_Positive(expectedValue) == expectedValue > 0

\* The test of line 204 that admits a market as an opportunity.
passesMinEV(expectedValue) == expectedValue >= minExpectedValue

\* A loop that ends at the first market whose evaluation fails.
afterFailure_Abort(rest) == <<>>

\* evaluateAllMarkets, lines 190-191 and 219-221: a market without prediction,
\* or whose evaluation threw, is skipped and the loop goes on with the rest.
afterFailure(rest) == rest

\* evaluateAllMarkets: the loop over this.markets from position i on.
RECURSIVE evaluateFrom(_, _)
evaluateFrom(i, matchData) ==
    IF i > Len(markets) THEN <<>>
    ELSE LET market == markets[i]
             prediction == predictMarket(market, matchData)
             odds == getOddsForMarket(market, matchData)
             expectedValue == calculateExpectedValue(prediction.probability, odds)
             rest == evaluateFrom(i + 1, matchData)
         IN  IF ~prediction.present THEN afterFailure(rest)
             ELSE IF odds = 0 THEN rest
             ELSE IF passesMinEV(expectedValue)
                  THEN <<[market |-> market,
                          probability |-> prediction.probability,
                          confidence |-> prediction.confidence,
                          expectedValue |-> expectedValue,
                          odds |-> odds]>> \o rest
                  ELSE rest

evaluateAllMarkets(matchData) == evaluateFrom(1, matchData)

\* filterByConfidence: the threshold of the plan (free's for an unknown plan).
thresholdOf(userPlan) ==
    IF userPlan \in DOMAIN confidenceThresholds
    THEN confidenceThresholds[userPlan]
    ELSE confidenceThresholds.free

\* A filter that drops a confidence equal to the threshold.
keepsConfidence_Strict(confidence, threshold) == confidence > threshold

keepsConfidence(confidence, threshold) == confidence >= threshold

RECURSIVE filterSeq(_, _)
filterSeq(opportunities, threshold) ==
    IF opportunities = <<>> THEN <<>>
    ELSE IF keepsConfidence(Head(opportunities).confidence, threshold)
         THEN <<Head(opportunities)>> \o filterSeq(Tail(opportunities), threshold)
         ELSE filterSeq(Tail(opportunities), threshold)

filterByConfidence(opportunities, userPlan) ==
    filterSeq(opportunities, thresholdOf(userPlan))

\* Array.prototype.sort with (a, b) => b.expectedValue - a.expectedValue: a
\* stable sort, descending by expected value.
RECURSIVE insertByEV(_, _)
insertByEV(o, sorted) ==
    IF sorted = <<>> THEN <<o>>
    ELSE IF Head(sorted).expectedValue >= o.expectedValue
         THEN <<Head(sorted)>> \o insertByEV(o, Tail(sorted))
         ELSE <<o>> \o sorted

RECURSIVE sortByEV(_)
sortByEV(opportunities) ==
    IF opportunities = <<>> THEN <<>>
    ELSE LET n == Len(opportunities) IN
         insertByEV(opportunities[n], sortByEV(SubSeq(opportunities, 1, n - 1)))

\* A selection that takes the first filtered opportunity without sorting.
selectBest_Unsorted(filteredOpportunities) ==
    IF Len(filteredOpportunities) = 0 THEN <<>>
    ELSE <<filteredOpportunities[1]>>

\* The value detectGoldenMoment returns given the filtered opportunities.
selectBest(filteredOpportunities) ==
    IF Len(filteredOpportunities) = 0 THEN <<>>
    ELSE <<sortByEV(filteredOpportunities)[1]>>

detectGoldenMoment(matchData, userPlan) ==
    IF ~matchData.avail THEN <<>>
    ELSE selectBest(filterByConfidence(evaluateAllMarkets(matchData), userPlan))

(***************************************************************************)
(* One detection call on every snapshot and plan.                          *)
(***************************************************************************)
(***************************************************************************)
(* Predictor: loadModels and the part of predict that reaches it           *)
(***************************************************************************)
supportedMarkets == <<"nextGoal", "over05", "over15", "over25", "btts", "cornerNext10Min">>

\* The number of predict() and loadModels() calls made on the Predictor.
MaxCalls == 2

CallIds == 1..MaxCalls

IdleCall == [kind |-> "none", market |-> "nextGoal", pc |-> "idle", i |-> 0,
             success |-> TRUE, ret |-> "none"]

\* The state the constructor of Predictor leaves.
PredictorConstructed ==
    /\ modelsLoaded = FALSE
    /\ isLoadingModels = FALSE
    /\ models = {}
    /\ calls = [c \in CallIds |-> IdleCall]
    /\ loadBodyRuns = 0

\* Calls take the call slots in order.
NextCall(c) ==
    /\ calls[c].pc = "idle"
    /\ IF c = 1 THEN TRUE ELSE calls[c - 1].pc # "idle"

\* A guard that looks at modelsLoaded alone.
loadGuard_NoLoadingFlag == modelsLoaded

\* loadModels, line 42: the call returns at once, loading nothing.
loadGuard == modelsLoaded \/ isLoadingModels

\* loadModels, lines 46-53: the body is entered and the first load is awaited.
EnterLoadBody(c, kind, market) ==
    /\ isLoadingModels' = TRUE
    /\ loadBodyRuns' = loadBodyRuns + 1
    /\ calls' = [calls EXCEPT ![c] = [kind |-> kind, market |-> market, pc |-> "loading",
                                      i |-> 1, success |-> TRUE, ret |-> "none"]]
    /\ UNCHANGED <<modelsLoaded, models, modelFiles>>

\* A loadModels() call (GoldenMomentDetector.loadModels makes one).
CallLoadModels(c) ==
    /\ NextCall(c)
    /\ IF loadGuard
       THEN /\ calls' = [calls EXCEPT ![c] =
                   [@ EXCEPT !.kind = "loadModels", !.pc = "done",
                             !.ret = IF modelsLoaded THEN "true" ELSE "false"]]
            /\ UNCHANGED <<modelsLoaded, isLoadingModels, models, modelFiles, loadBodyRuns>>
       ELSE EnterLoadBody(c, "loadModels", "nextGoal")
    /\ UNCHANGED detVars
    /\ UNCHANGED <<ctlVars, fuVars, selVars, liveVars, updVars, apiVars>>

\* predict(market), lines 87-95: the rule prediction is awaited.
CallPredict(c, market) ==
    /\ NextCall(c)
    /\ calls' = [calls EXCEPT ![c] = [@ EXCEPT !.kind = "predict", !.market = market,
                                               !.pc = "rules"]]
    /\ UNCHANGED <<modelsLoaded, isLoadingModels, models, modelFiles, loadBodyRuns>>
    /\ UNCHANGED detVars
    /\ UNCHANGED <<ctlVars, fuVars, selVars, liveVars, updVars, apiVars>>

\* getPredictionFromML, lines 121-125: loadModels is called when no model is
\* loaded and none is loading.
PredictReachML(c) ==
    /\ calls[c].pc = "rules"
    /\ IF ~modelsLoaded /\ ~isLoadingModels
       THEN IF loadGuard
            THEN /\ calls' = [calls EXCEPT ![c] = [@ EXCEPT !.pc = "loaded"]]
                 /\ UNCHANGED <<modelsLoaded, isLoadingModels, models, modelFiles,
                                loadBodyRuns>>
            ELSE EnterLoadBody(c, "predict", calls[c].market)
       ELSE /\ calls' = [calls EXCEPT ![c] = [@ EXCEPT !.pc = "loaded"]]
            /\ UNCHANGED <<modelsLoaded, isLoadingModels, models, modelFiles, loadBodyRuns>>
    /\ UNCHANGED detVars
    /\ UNCHANGED <<ctlVars, fuVars, selVars, liveVars, updVars, apiVars>>

\* loadModels, lines 53-77: tf.loadLayersModel of market i settles; after the
\* last market the flags are set and the call returns.
LoadStep(c) ==
    /\ calls[c].pc = "loading"
    /\ LET k == calls[c].i
           market == supportedMarkets[k]
           loaded == market \in modelFiles
           models1 == IF loaded THEN models \cup {market} ELSE models
           success1 == calls[c].success /\ loaded
       IN  /\ models' = models1
           /\ IF k < Len(supportedMarkets)
              THEN /\ calls' = [calls EXCEPT ![c] =
                          [@ EXCEPT !.i = k + 1, !.success = success1]]
                   /\ UNCHANGED <<modelsLoaded, isLoadingModels>>
              ELSE /\ modelsLoaded' = (success1 \/ models1 # {})
                   /\ isLoadingModels' = FALSE
                   /\ calls' = [calls EXCEPT ![c] =
                          [@ EXCEPT !.i = 0, !.success = TRUE,
                                    !.pc = IF calls[c].kind = "predict" THEN "loaded" ELSE "done",
                                    !.ret = IF calls[c].kind = "predict" THEN "none"
                                            ELSE IF success1 \/ models1 # {}
                                                 THEN "true" ELSE "false"]]
    /\ UNCHANGED <<modelFiles, loadBodyRuns>>
    /\ UNCHANGED detVars
    /\ UNCHANGED <<ctlVars, fuVars, selVars, liveVars, updVars, apiVars>>

\* getPredictionFromML, lines 127-158, and predict, lines 100-107: with no
\* model for the market the rule prediction is returned, otherwise the fusion.
PredictReturn(c) ==
    /\ calls[c].pc = "loaded"
    /\ calls' = [calls EXCEPT ![c] =
           [IdleCall EXCEPT !.kind = "predict", !.market = calls[c].market, !.pc = "done",
                     !.ret = IF calls[c].market \in models THEN "combined" ELSE "rules"]]
    /\ UNCHANGED <<modelsLoaded, isLoadingModels, models, modelFiles, loadBodyRuns>>
    /\ UNCHANGED detVars
    /\ UNCHANGED <<ctlVars, fuVars, selVars, liveVars, updVars, apiVars>>

PredInputs ==
    /\ PredictorConstructed
    /\ modelFiles \in SUBSET MarketSet

PredNext ==
    \E c \in CallIds :
        \/ CallLoadModels(c)
        \/ \E m \in MarketSet : CallPredict(c, m)
        \/ PredictReachML(c)
        \/ LoadStep(c)
        \/ PredictReturn(c)

(***************************************************************************)
(* GoldenAlertsController: constructor state and environment               *)
(***************************************************************************)
Fixtures == {"f1"}

LiveStatuses == {"1H", "2H", "HT"}

\* The statuses a fixture goes through: not started, live, finished.
StatusOrder == <<"NS", "1H", "FT">>

\* The values of match.scores.final the selector attaches to a selected match.
ScoreFinals == {0, 9}

plans == <<"estratega", "insider", "free">>

planDelays == [free |-> 60, insider |-> 30, estratega |-> 0]

cycleInterval == 300

mainAlertDelay == 3

cooldown == 900

developmentMode == FALSE

\* The snapshots a detection call of the controller can meet: no live data, or
\* one priced market whose prediction passes the minimum expected value and
\* the confidence thresholds of the estratega and insider plans.
StrongMarket == [pred |-> [present |-> TRUE, probability |-> 60, confidence |-> 80],
                 prices |-> <<220>>]

CtlSnapshots ==
    {NoSnapshot,
     SnapshotOf({"nextGoal"}, [m \in {"nextGoal"} |-> StrongMarket])}

\* The subscribers getUsersByPlan can return: none or one.
SubscriberCounts == {0, 1}

\* Date.now() when the process starts, and the last instant modelled.
StartTime == 1000

MaxTime == 1600

\* How many runMonitoringCycle invocations, start() calls and monitoring
\* objects can be alive at once.
MaxCycles == 2

MaxStarts == 1

MaxObjs == 2

CycleIds == 1..MaxCycles

StartIds == 1..MaxStarts

ObjIds == 1..MaxObjs

NoObj == [used |-> FALSE, id |-> "f1", status |-> "NS", lastCheck |-> 0,
          sentAlerts |-> <<>>, priority |-> 0]

NoTask == [pc |-> "none", plan |-> 0, obj |-> 0, market |-> "none", ready |-> 0]

NoCycle == [pc |-> "free", owner |-> 0, sel |-> {}]

NoStart == [pc |-> "idle", due |-> 0]

\* A start() call that has returned and whose interval timer, if it installed
\* one, was cleared.
EndedStart == [pc |-> "ended", due |-> 0]

\* The state the constructor of GoldenAlertsController leaves.
ControllerConstructed ==
    /\ isRunning = FALSE
    /\ activeMonitoring = [f \in Fixtures |-> 0]
    /\ monitoringInterval = 0
    /\ starts = [s \in StartIds |-> NoStart]
    /\ objs = [o \in ObjIds |-> NoObj]
    /\ cycles = [c \in CycleIds |-> NoCycle]
    /\ tasks = [c \in CycleIds |-> [f \in Fixtures |-> NoTask]]
    /\ timers = {}

CtlIdle ==
    /\ ControllerConstructed
    /\ now = StartTime
    /\ status = [f \in Fixtures |-> "NS"]

\* A monitoring object nothing refers to any more is forgotten.
Referenced(o, am, tk) ==
    \/ \E f \in Fixtures : am[f] = o
    \/ \E c \in CycleIds, f \in Fixtures : tk[c][f].pc # "none" /\ tk[c][f].obj = o

Collect(ob, am, tk) ==
    [o \in ObjIds |-> IF Referenced(o, am, tk) THEN ob[o] ELSE NoObj]

FreeObjs == {o \in ObjIds : ~objs[o].used}

FreeCycles == {c \in CycleIds : cycles[c].pc = "free"}

Least(S) == CHOOSE x \in S : \A y \in S : x <= y

RunningCycles == {c \in CycleIds : cycles[c].pc # "free"}

\* The instants at which a pending timer is due.
DueTimes ==
    {t.due : t \in timers} \cup {starts[s].due : s \in {x \in StartIds : starts[x].pc = "ticking"}}

(***************************************************************************)
(* start(), stop(), runMonitoringCycle, updateActiveMonitoring             *)
(***************************************************************************)
\* stop(), lines 116-124, as an update of the controller's fields.
StopEffect ==
    /\ starts' = [s \in StartIds |->
                    IF s = monitoringInterval /\ starts[s].pc = "ticking"
                    THEN EndedStart ELSE starts[s]]
    /\ monitoringInterval' = 0
    /\ activeMonitoring' = [f \in Fixtures |-> 0]
    /\ isRunning' = FALSE
    /\ objs' = Collect(objs, [f \in Fixtures |-> 0], tasks)

\* stop() on a running system.
Stop ==
    /\ isRunning
    /\ StopEffect
    /\ UNCHANGED <<now, status, cycles, tasks, timers>>
    /\ UNCHANGED <<detVars, predVars, fuVars, selVars, liveVars, updVars, apiVars>>

\* start(), lines 75-84: not running, the repositories are being initialized.
CallStart(s) ==
    /\ starts[s].pc = "idle"
    /\ \A x \in StartIds : x < s => starts[x].pc # "idle"
    /\ ~isRunning
    /\ starts' = [starts EXCEPT ![s] = [pc |-> "init", due |-> 0]]
    /\ UNCHANGED <<now, status, isRunning, monitoringInterval, activeMonitoring, objs,
                   cycles, tasks, timers>>
    /\ UNCHANGED <<detVars, predVars, fuVars, selVars, liveVars, updVars, apiVars>>

\* runMonitoringCycle, lines 135-139: the invocation awaits the selector.
LaunchCycle(c, owner) ==
    cycles' = [cycles EXCEPT ![c] = [pc |-> "select", owner |-> owner, sel |-> {}]]

\* start(), lines 87-88: the first cycle is started and awaited.
StartInitialized(s) ==
    /\ starts[s].pc = "init"
    /\ FreeCycles # {}
    /\ isRunning' = TRUE
    /\ LaunchCycle(Least(FreeCycles), s)
    /\ starts' = [starts EXCEPT ![s] = [pc |-> "cycle", due |-> 0]]
    /\ UNCHANGED <<now, status, monitoringInterval, activeMonitoring, objs, tasks, timers>>
    /\ UNCHANGED <<detVars, predVars, fuVars, selVars, liveVars, updVars, apiVars>>

\* start(), lines 98-101: a repository failed to initialize; stop() is called.
StartInitFailed(s) ==
    /\ starts[s].pc = "init"
    /\ IF isRunning
       THEN /\ starts' = [x \in StartIds |->
                   IF x = s \/ (x = monitoringInterval /\ starts[x].pc = "ticking")
                   THEN EndedStart ELSE starts[x]]
            /\ monitoringInterval' = 0
            /\ activeMonitoring' = [f \in Fixtures |-> 0]
            /\ isRunning' = FALSE
            /\ objs' = Collect(objs, [f \in Fixtures |-> 0], tasks)
       ELSE /\ starts' = [starts EXCEPT ![s] = EndedStart]
            /\ UNCHANGED <<monitoringInterval, activeMonitoring, isRunning, objs>>
    /\ UNCHANGED <<now, status, cycles, tasks, timers>>
    /\ UNCHANGED <<detVars, predVars, fuVars, selVars, liveVars, updVars, apiVars>>

\* An interval that is the base interval for every priority.
getUpdateIntervalByPriority_Base(priority) == 300

\* getUpdateIntervalByPriority.
getUpdateIntervalByPriority(priority) ==
    IF priority >= 9 THEN 30
    ELSE IF priority >= 7 THEN 60
    ELSE IF priority >= 5 THEN 120
    ELSE 300

\* updateActiveMonitoring, lines 166-179: the entry made for a new match.
NewEntry(f, final) ==
    [used |-> TRUE, id |-> f, status |-> status[f], lastCheck |-> 0,
     sentAlerts |-> <<>>, priority |-> IF final # 0 THEN final ELSE 5]

\* updateActiveMonitoring, line 186.
isActive(monitoring) == monitoring.status \in LiveStatuses

\* A deletion that looks at the selection only.
dropsEntry_Unselected(monitoring, matchId, idsToKeep) == matchId \notin idsToKeep

\* updateActiveMonitoring, line 188: the entry of matchId is deleted.
dropsEntry(monitoring, matchId, idsToKeep) ==
    ~isActive(monitoring) /\ matchId \notin idsToKeep

\* updateActiveMonitoring over the fixtures of `todo`: st.am is the map, st.ob
\* the objects; final[f] is the score of a selected match.
RECURSIVE updateEntries(_, _, _, _)
updateEntries(todo, st, sel, final) ==
    IF todo = {} THEN st
    ELSE LET f == CHOOSE x \in todo : TRUE
             free == {o \in ObjIds : ~st.ob[o].used}
             added == IF f \in sel /\ st.am[f] = 0
                      THEN [am |-> [st.am EXCEPT ![f] = Least(free)],
                            ob |-> [st.ob EXCEPT ![Least(free)] = NewEntry(f, final[f])]]
                      ELSE st
             kept == IF added.am[f] # 0 /\ dropsEntry(added.ob[added.am[f]], f, sel)
                     THEN [am |-> [added.am EXCEPT ![f] = 0], ob |-> added.ob]
                     ELSE added
         IN  updateEntries(todo \ {f}, kept, sel, final)

\* processMatch, lines 207-218, up to its first await.
processMatchStart(monitoring, o) ==
    IF now - monitoring.lastCheck < getUpdateIntervalByPriority(monitoring.priority)
    THEN [NoTask EXCEPT !.pc = "done", !.obj = o]
    ELSE [NoTask EXCEPT !.pc = "detect", !.plan = 1, !.obj = o]

\* runMonitoringCycle, lines 139-152: the selector returned `sel`; the map is
\* updated and processMatch is called for every entry.
CycleSelected(c, sel, final) ==
    /\ cycles[c].pc = "select"
    /\ \A f \in sel : status[f] \in {"NS"} \cup LiveStatuses
    /\ Cardinality({f \in sel : activeMonitoring[f] = 0}) <= Cardinality(FreeObjs)
    /\ LET st == updateEntries(Fixtures, [am |-> activeMonitoring, ob |-> objs], sel, final)
           due(f) == st.am[f] # 0 /\
                     now - st.ob[st.am[f]].lastCheck >=
                         getUpdateIntervalByPriority(st.ob[st.am[f]].priority)
           ob1 == [o \in ObjIds |->
                     IF \E f \in Fixtures : st.am[f] = o /\ due(f)
                     THEN [st.ob[o] EXCEPT !.lastCheck = now] ELSE st.ob[o]]
           tk1 == [tasks EXCEPT ![c] =
                     [f \in Fixtures |->
                        IF st.am[f] = 0 THEN NoTask
                        ELSE processMatchStart(st.ob[st.am[f]], st.am[f])]]
       IN  /\ activeMonitoring' = st.am
           /\ tasks' = tk1
           /\ objs' = Collect(ob1, st.am, tk1)
    /\ cycles' = [cycles EXCEPT ![c] = [@ EXCEPT !.pc = "join", !.sel = sel]]
    /\ UNCHANGED <<now, status, isRunning, monitoringInterval, starts, timers>>
    /\ UNCHANGED <<detVars, predVars, fuVars, selVars, liveVars, updVars, apiVars>>

\* isRecentlyAlerted.
isRecentlyAlerted(monitoring, alertKey) ==
    IF alertKey \notin DOMAIN monitoring.sentAlerts THEN FALSE
    ELSE IF monitoring.sentAlerts[alertKey] = 0 THEN FALSE
    ELSE now - monitoring.sentAlerts[alertKey] < cooldown

\* checkGoldenMomentsForAllPlans: the loop goes on to the next plan, or ends.
NextPlan(task) ==
    IF task.plan < Len(plans)
    THEN [task EXCEPT !.pc = "detect", !.plan = task.plan + 1, !.market = "none"]
    ELSE [task EXCEPT !.pc = "done", !.plan = 0, !.market = "none", !.ready = 0]

\* checkGoldenMomentsForAllPlans, lines 236-248: detectGoldenMoment resolves
\* for the plan; a golden moment not alerted recently goes to
\* generateAndSendAlert, which awaits the repositories.
TaskDetect(c, f, snap) ==
    /\ tasks[c][f].pc = "detect"
    /\ tasks[c][f].ready <= now
    /\ LET task == tasks[c][f]
           plan == plans[task.plan]
           goldenMoment == detectGoldenMoment(snap, plan)
       IN  IF goldenMoment = <<>>
           THEN tasks' = [tasks EXCEPT ![c][f] = NextPlan(task)]
           ELSE IF isRecentlyAlerted(objs[task.obj], <<goldenMoment[1].market, plan>>)
                THEN tasks' = [tasks EXCEPT ![c][f] = NextPlan(task)]
                ELSE tasks' = [tasks EXCEPT ![c][f] =
                                 [task EXCEPT !.pc = "gen",
                                              !.market = goldenMoment[1].market]]
    /\ objs' = Collect(objs, activeMonitoring, tasks')
    /\ UNCHANGED <<now, status, isRunning, monitoringInterval, starts, activeMonitoring,
                   cycles, timers>>
    /\ UNCHANGED <<detVars, predVars, fuVars, selVars, liveVars, updVars, apiVars>>

\* A dispatch that sleeps through the plan's delay before it returns.
dispatchHold_Sleep(delay) == delay

\* generateAndSendAlert, lines 303-311: how long the call keeps its caller
\* after it has scheduled the deliveries (setTimeout returns at once).
dispatchHold(delay) == 0

\* generateAndSendAlert, lines 295-309: one delivery timer per subscriber.
scheduledDeliveries(c, f, task, n) ==
    IF developmentMode THEN {}
    ELSE {[f |-> f, obj |-> task.obj, plan |-> plans[task.plan], market |-> task.market,
           stage |-> "pre", due |-> now + planDelays[plans[task.plan]], by |-> c] :
             u \in 1..n}

\* generateAndSendAlert, lines 281-315, then checkGoldenMomentsForAllPlans,
\* line 251: the repositories answered (ok) or one of them threw; for ok the
\* deliveries to the n subscribers are scheduled; the send is recorded.
TaskGenFinish(c, f, ok, n) ==
    /\ tasks[c][f].pc = "gen"
    /\ LET task == tasks[c][f]
           plan == plans[task.plan]
           alertKey == <<task.market, plan>>
           sent == objs[task.obj].sentAlerts
           hold == IF ok THEN dispatchHold(planDelays[plan]) ELSE 0
           task1 == [NextPlan(task) EXCEPT !.ready = IF hold = 0 THEN 0 ELSE now + hold]
           tk1 == [tasks EXCEPT ![c][f] = task1]
           ob1 == [objs EXCEPT ![task.obj].sentAlerts =
                     [k \in DOMAIN sent \cup {alertKey} |->
                        IF k = alertKey THEN now ELSE sent[k]]]
       IN  /\ timers' = IF ok THEN timers \cup scheduledDeliveries(c, f, task, n)
                        ELSE timers
           /\ tasks' = tk1
           /\ objs' = Collect(ob1, activeMonitoring, tk1)
    /\ UNCHANGED <<now, status, isRunning, monitoringInterval, starts, activeMonitoring,
                   cycles>>
    /\ UNCHANGED <<detVars, predVars, fuVars, selVars, liveVars, updVars, apiVars>>

\* runMonitoringCycle, lines 152-154: every processMatch has settled.  When
\* start() awaited this cycle it goes on to install the interval timer
\* (lines 91-97).
CycleJoin(c) ==
    /\ cycles[c].pc = "join"
    /\ \A f \in Fixtures : /\ tasks[c][f].pc \in {"none", "done"}
                           /\ tasks[c][f].ready <= now
    /\ cycles' = [cycles EXCEPT ![c] = NoCycle]
    /\ tasks' = [tasks EXCEPT ![c] = [f \in Fixtures |-> NoTask]]
    /\ objs' = Collect(objs, activeMonitoring, tasks')
    /\ IF cycles[c].owner # 0
       THEN /\ monitoringInterval' = cycles[c].owner
            /\ starts' = [starts EXCEPT ![cycles[c].owner] =
                            [pc |-> "ticking", due |-> now + cycleInterval]]
       ELSE UNCHANGED <<monitoringInterval, starts>>
    /\ UNCHANGED <<now, status, isRunning, activeMonitoring, timers>>
    /\ UNCHANGED <<detVars, predVars, fuVars, selVars, liveVars, updVars, apiVars>>

\* The setInterval callback of line 92.
IntervalTick(s) ==
    /\ starts[s].pc = "ticking"
    /\ starts[s].due <= now
    /\ FreeCycles # {}
    /\ LaunchCycle(Least(FreeCycles), 0)
    /\ starts' = [starts EXCEPT ![s].due = @ + cycleInterval]
    /\ UNCHANGED <<now, status, isRunning, monitoringInterval, activeMonitoring, objs,
                   tasks, timers>>
    /\ UNCHANGED <<detVars, predVars, fuVars, selVars, liveVars, updVars, apiVars>>

\* The setTimeout callback of line 306 (sendAlertMessages: the pre-alert is
\* sent and the main alert scheduled, unless the send throws) and the one of
\* line 335 (the main alert is sent).
DeliveryFire(t, ok) ==
    /\ t \in timers
    /\ t.due <= now
    /\ timers' = IF t.stage = "pre" /\ ok
                 THEN (timers \ {t}) \cup
                          {[t EXCEPT !.stage = "main", !.due = now + mainAlertDelay]}
                 ELSE timers \ {t}
    /\ UNCHANGED <<now, status, isRunning, monitoringInterval, starts, activeMonitoring,
                   objs, cycles, tasks>>
    /\ UNCHANGED <<detVars, predVars, fuVars, selVars, liveVars, updVars, apiVars>>

Min(S) == CHOOSE x \in S : \A y \in S : x <= y

\* Time passes, up to the next due timer; a due timer fires before time goes on.
\* The clock is followed from the first start() call on.
Tick ==
    /\ now < MaxTime
    /\ \E s \in StartIds : starts[s].pc # "idle"
    /\ \A d \in DueTimes : d > now
    /\ now' = Min({now + cycleInterval, MaxTime} \cup DueTimes)
    /\ UNCHANGED <<status, isRunning, monitoringInterval, starts, activeMonitoring,
                   objs, cycles, tasks, timers>>
    /\ UNCHANGED <<detVars, predVars, fuVars, selVars, liveVars, updVars, apiVars>>

\* The match of a fixture kicks off or ends.
MatchProgress(f) ==
    /\ \E k \in 1..(Len(StatusOrder) - 1) :
          /\ status[f] = StatusOrder[k]
          /\ status' = [status EXCEPT ![f] = StatusOrder[k + 1]]
    /\ UNCHANGED <<now, isRunning, monitoringInterval, starts, activeMonitoring,
                   objs, cycles, tasks, timers>>
    /\ UNCHANGED <<detVars, predVars, fuVars, selVars, liveVars, updVars, apiVars>>

CtlNext ==
    \/ Stop
    \/ \E s \in StartIds : CallStart(s) \/ StartInitialized(s) \/ StartInitFailed(s)
                              \/ IntervalTick(s)
    \/ \E c \in CycleIds :
          \/ \E sel \in SUBSET Fixtures : \E final \in [Fixtures -> ScoreFinals] :
                CycleSelected(c, sel, final)
          \/ \E f \in Fixtures :
                \/ \E snap \in CtlSnapshots : TaskDetect(c, f, snap)
                \/ \E ok \in BOOLEAN, n \in SubscriberCounts : TaskGenFinish(c, f, ok, n)
          \/ CycleJoin(c)
    \/ \E t \in timers : \E ok \in BOOLEAN : DeliveryFire(t, ok)
    \/ Tick
    \/ \E f \in Fixtures : MatchProgress(f)

(***************************************************************************)
(* RuleEngine.  Probabilities and confidences of the predictor and of the  *)
(* rule engine are in units of 1/10000 (1.0 -> 10000); a division whose    *)
(* result is not a whole number of units is rounded down.  A prediction    *)
(* with nan = TRUE has NaN for its probability and its confidence.         *)
(***************************************************************************)
Unit == 10000

Prediction(probability, confidence) ==
    [probability |-> probability, confidence |-> confidence, nan |-> FALSE]

NaNPrediction == [probability |-> 0, confidence |-> 0, nan |-> TRUE]

Max2(a, b) == IF a >= b THEN a ELSE b

Min2(a, b) == IF a <= b THEN a ELSE b

Abs(a) == IF a >= 0 THEN a ELSE -a

\* Math.max(lo, Math.min(hi, x)).
Clamp(lo, hi, x) == Max2(lo, Min2(hi, x))

baseConfidence == [nextGoal |-> 5000, over05 |-> 6000, over15 |-> 5000,
                   over25 |-> 4000, btts |-> 5000, cornerNext10Min |-> 4000]

\* The default prediction of evaluate (unknown market, or an exception).
DefaultPrediction == Prediction(5000, 2000)

\* extractStatistics: the statistics of the snapshot and their totals.
extractStatistics(matchData) ==
    [possessionHome |-> matchData.stats.possessionHome,
     shotsOnTargetHome |-> matchData.stats.shotsOnTargetHome,
     shotsOnTargetAway |-> matchData.stats.shotsOnTargetAway,
     cornersHome |-> matchData.stats.cornersHome,
     cornersAway |-> matchData.stats.cornersAway,
     totalShots |-> matchData.stats.shotsOnTargetHome + matchData.stats.shotsOnTargetAway,
     totalCorners |-> matchData.stats.cornersHome + matchData.stats.cornersAway]

NoRecentEvents ==
    [recentCornersHome |-> 0, recentCornersAway |-> 0, recentShotsHome |-> 0,
     recentShotsAway |-> 0, homePositiveEvents |-> 0, awayPositiveEvents |-> 0,
     lastCornerMinute |-> 0]

\* extractRecentEvents, lines 527-564: one event of the last 15 minutes.
countEvent(result, event) ==
    IF event.type = "Goal"
    THEN IF event.home
         THEN [result EXCEPT !.recentShotsHome = @ + 1, !.homePositiveEvents = @ + 3]
         ELSE [result EXCEPT !.recentShotsAway = @ + 1, !.awayPositiveEvents = @ + 3]
    ELSE IF event.type = "Card"
    THEN IF event.home
         THEN [result EXCEPT !.awayPositiveEvents = @ + 1]
         ELSE [result EXCEPT !.homePositiveEvents = @ + 1]
    ELSE IF event.type = "Corner"
    THEN IF event.home
         THEN [result EXCEPT !.recentCornersHome = @ + 1, !.homePositiveEvents = @ + 1]
         ELSE [result EXCEPT !.recentCornersAway = @ + 1, !.awayPositiveEvents = @ + 1]
    ELSE IF event.type = "Shot"
    THEN IF event.home
         THEN [result EXCEPT !.recentShotsHome = @ + 1, !.homePositiveEvents = @ + 1]
         ELSE [result EXCEPT !.recentShotsAway = @ + 1, !.awayPositiveEvents = @ + 1]
    ELSE result

RECURSIVE countEvents(_, _, _)
countEvents(events, currentMinute, result) ==
    IF events = <<>> THEN result
    ELSE LET event == Head(events)
             result1 == IF currentMinute - event.elapsed <= 15
                        THEN countEvent(result, event) ELSE result
             \* the last Corner event of the whole list gives lastCornerMinute
             result2 == IF event.type = "Corner"
                        THEN [result1 EXCEPT !.lastCornerMinute = event.elapsed]
                        ELSE result1
         IN  countEvents(Tail(events), currentMinute, result2)

\* extractRecentEvents (lastCornerMinute 0: null).
extractRecentEvents(matchData) ==
    IF matchData.events = <<>> THEN NoRecentEvents
    ELSE countEvents(matchData.events, matchData.minute, NoRecentEvents)

\* recentEvents.homeAttacking > 0.5 and recentEvents.awayAttacking > 0.5: the
\* indicators are the shares of the positive events, 0.5 when there are none.
homeAttackingHigh(recentEvents) ==
    LET totalEvents == recentEvents.homePositiveEvents + recentEvents.awayPositiveEvents
    IN  totalEvents > 0 /\ 2 * recentEvents.homePositiveEvents > totalEvents

awayAttackingHigh(recentEvents) ==
    LET totalEvents == recentEvents.homePositiveEvents + recentEvents.awayPositiveEvents
    IN  totalEvents > 0 /\ 2 * recentEvents.awayPositiveEvents > totalEvents

\* A factor list as the pair of its total weight and its length.
NoFactors == [weight |-> 0, count |-> 0]

push(factors, cond, weight) ==
    IF cond THEN [weight |-> factors.weight + weight, count |-> factors.count + 1]
    ELSE factors

\* evaluateNextGoal.
evaluateNextGoal(matchData) ==
    LET stats == extractStatistics(matchData)
        recentEvents == extractRecentEvents(matchData)
        possHome == stats.possessionHome > 65
        possAway == ~possHome /\ (100 - stats.possessionHome) > 65
        shotsHome == stats.shotsOnTargetHome > stats.shotsOnTargetAway + 3
        shotsAway == ~shotsHome /\ stats.shotsOnTargetAway > stats.shotsOnTargetHome + 3
        cornHome == stats.cornersHome > stats.cornersAway + 2
        cornAway == ~cornHome /\ stats.cornersAway > stats.cornersHome + 2
        momHome == homeAttackingHigh(recentEvents)
        momAway == ~momHome /\ awayAttackingHigh(recentEvents)
        homeFactors == push(push(push(push(NoFactors, possHome, 2), shotsHome, 3),
                                 cornHome, 1), momHome, 2)
        awayFactors == push(push(push(push(NoFactors, possAway, 2), shotsAway, 3),
                                 cornAway, 1), momAway, 2)
        totalWeight == homeFactors.weight + awayFactors.weight
        totalFactors == homeFactors.count + awayFactors.count
        homeProbability ==
            IF totalWeight > 0
            THEN 5000 + ((homeFactors.weight - awayFactors.weight) * Unit) \div (totalWeight * 2)
            ELSE 5000
        confidence ==
            IF totalWeight > 0
            THEN Min2(9000, baseConfidence.nextGoal + totalFactors * 500)
            ELSE baseConfidence.nextGoal
    IN  Prediction(Clamp(1000, 9000, homeProbability), confidence)

\* A resolution test that asks for one goal more than the line.
overResolved_OneMore(totalGoals, line) == totalGoals > line + 1

\* evaluateOver, line 179: totalGoals > threshold, for the threshold line + 0.5.
overResolved(totalGoals, line) == totalGoals > line

\* evaluateOver for the threshold line + 0.5 (line 0, 1 or 2).
evaluateOver(matchData, line) ==
    LET minute == matchData.minute
        totalGoals == matchData.scoreHome + matchData.scoreAway
        stats == extractStatistics(matchData)
        goalsNeeded == line + 1 - totalGoals
        phaseFactor == IF minute <= 30 THEN 6 ELSE IF minute <= 60 THEN 8 ELSE 10
        minutesLeft == 90 - minute
        \* projectedGoals > threshold
        ritmo == minute > 0 /\ totalGoals * 180 > (2 * line + 1) * minute
        f1 == push(NoFactors, ritmo, 3)
        f2 == push(f1, stats.totalShots > 10, 2)
        f3 == push(f2, stats.totalCorners > 8, 1)
        overFactors == IF minutesLeft * 2 > goalsNeeded * 30 * 3 THEN push(f3, TRUE, 2)
                       ELSE IF minutesLeft * 2 < goalsNeeded * 30 THEN push(f3, TRUE, -3)
                       ELSE f3
        baseProbability == IF line = 0 THEN 7500 ELSE IF line = 1 THEN 6000 ELSE 5000
        totalWeight == overFactors.weight
        p1 == baseProbability + totalWeight * 500
        p2 == (p1 * phaseFactor) \div 10
        p3 == IF minutesLeft < goalsNeeded * 15
              THEN (p2 * minutesLeft) \div (goalsNeeded * 15)
              ELSE p2
        name == IF line = 0 THEN "over05" ELSE IF line = 1 THEN "over15" ELSE "over25"
        confidence == baseConfidence[name] + Abs(totalWeight) * 375
                          + (minute * 2000) \div 90
    IN  IF overResolved(totalGoals, line) THEN Prediction(Unit, Unit)
        ELSE Prediction(Clamp(500, 9500, p3), Clamp(2000, 9000, confidence))

\* evaluateBtts.
evaluateBtts(matchData) ==
    LET minute == matchData.minute
        homeScored == matchData.scoreHome > 0
        awayScored == matchData.scoreAway > 0
        stats == extractStatistics(matchData)
        f1 == push(NoFactors, stats.shotsOnTargetHome >= 3, 2)
        f2 == push(f1, stats.shotsOnTargetAway >= 3, 2)
        f3 == IF minute > 75 THEN push(f2, TRUE, -3)
              ELSE IF minute < 30 THEN push(f2, TRUE, 2)
              ELSE f2
        bttsFactors == push(f3, homeScored \/ awayScored, 3)
        totalWeight == bttsFactors.weight
        p1 == 5000 + (totalWeight * 4000) \div 9
        p2 == IF minute > 75 THEN (p1 * 6) \div 10 ELSE p1
        c1 == baseConfidence.btts + (Abs(totalWeight) * 3000) \div 9
        c2 == IF homeScored \/ awayScored THEN c1 + 1000 ELSE c1
    IN  IF homeScored /\ awayScored THEN Prediction(Unit, Unit)
        ELSE Prediction(Clamp(500, 9500, p2), Clamp(2000, 9000, c2))

\* evaluateCorner.
evaluateCorner(matchData) ==
    LET minute == matchData.minute
        stats == extractStatistics(matchData)
        recentEvents == extractRecentEvents(matchData)
        \* cornerRate > 0.12
        ritmoAlto == minute > 0 /\ stats.totalCorners * 100 > 12 * minute
        totalRecentPressure == recentEvents.recentShotsHome + recentEvents.recentCornersHome
                                 + recentEvents.recentShotsAway + recentEvents.recentCornersAway
        f1 == push(NoFactors, ritmoAlto, 3)
        f2 == push(f1, totalRecentPressure > 3, 2)
        cornerFactors == push(f2, (minute > 35 /\ minute <= 45) \/ (minute > 80 /\ minute <= 90), 2)
        totalWeight == cornerFactors.weight
        p1 == 4000 + (totalWeight * 5000) \div 7
        p2 == IF recentEvents.lastCornerMinute # 0 /\ minute - recentEvents.lastCornerMinute < 2
              THEN p1 \div 2 ELSE p1
        confidence == baseConfidence.cornerNext10Min + (Abs(totalWeight) * 3000) \div 7
    IN  Prediction(Clamp(1000, 9000, p2), Clamp(2000, 8000, confidence))

\* RuleEngine.evaluate.
evaluate(market, matchData) ==
    CASE market = "nextGoal" -> evaluateNextGoal(matchData)
      [] market = "over05" -> evaluateOver(matchData, 0)
      [] market = "over15" -> evaluateOver(matchData, 1)
      [] market = "over25" -> evaluateOver(matchData, 2)
      [] market = "btts" -> evaluateBtts(matchData)
      [] market = "cornerNext10Min" -> evaluateCorner(matchData)
      [] OTHER -> DefaultPrediction

(***************************************************************************)
(* Predictor.predict: rule prediction, learned estimator and fusion        *)
(***************************************************************************)
confidenceWeights == [ml |-> 7, rules |-> 3]

\* null, for a prediction that is not available.
NullPrediction == [present |-> FALSE, pred |-> DefaultPrediction]

Some(prediction) == [present |-> TRUE, pred |-> prediction]

\* What the estimator of a market does in a call: there is no model for the
\* market, the prediction throws, or it yields a number, or NaN.
NoModel == [kind |-> "nomodel", value |-> 0]

\* An estimator confidence that goes from 0.5 up to 1.0.
mlConfidence_Full(probability) == 5000 + (Abs(probability - 5000) * 2 * 5) \div 10

\* getPredictionFromML, lines 144-147: the confidence of the estimator's value.
mlConfidence(probability) == 5000 + (Abs(probability - 5000) * 2 * 4) \div 10

\* getPredictionFromML, lines 128-157: the estimator's prediction is returned
\* unless there is no model or the prediction threw.
mlAccepted(ml) == ml.kind \in {"value", "nan"}

\* getPredictionFromML.
getPredictionFromML(market, matchData, ml) ==
    IF ~mlAccepted(ml) THEN NullPrediction
    ELSE IF ml.kind = "nan" THEN Some(NaNPrediction)
    ELSE Some(Prediction(ml.value, mlConfidence(ml.value)))

\* combinePredictions.
combinePredictions(mlPrediction, rulesPrediction) ==
    LET mlWeight == confidenceWeights.ml * mlPrediction.confidence
        rulesWeight == confidenceWeights.rules * rulesPrediction.confidence
        totalWeight == mlWeight + rulesWeight
        combinedProbability ==
            (mlPrediction.probability * mlWeight + rulesPrediction.probability * rulesWeight)
                \div totalWeight
        combinedConfidence ==
            Max2(mlPrediction.confidence * confidenceWeights.ml,
                 rulesPrediction.confidence * confidenceWeights.rules) \div 10
    IN  IF mlPrediction.nan \/ rulesPrediction.nan THEN NaNPrediction
        ELSE Prediction(combinedProbability, combinedConfidence)

\* getPredictionFromRules.
getPredictionFromRules(market, matchData) == evaluate(market, matchData)

\* predict, given what the estimator of the market does.
predict(market, matchData, ml) ==
    IF market \notin {supportedMarkets[i] : i \in DOMAIN supportedMarkets}
    THEN Prediction(5000, 2000)
    ELSE LET rulesPrediction == getPredictionFromRules(market, matchData)
             mlPrediction == getPredictionFromML(market, matchData, ml)
         IN  IF mlPrediction.present
             THEN combinePredictions(mlPrediction.pred, rulesPrediction)
             ELSE rulesPrediction

(***************************************************************************)
(* One predict call on every market, snapshot and estimator behaviour.     *)
(***************************************************************************)
\* The goals a team has scored are at most MaxGoals.
MaxGoals == 2

Minutes == {0, 25, 50, 80, 95}

NoStatistics == [possessionHome |-> 50, shotsOnTargetHome |-> 0, shotsOnTargetAway |-> 0,
                 cornersHome |-> 0, cornersAway |-> 0]

Statistics ==
    {NoStatistics,
     [possessionHome |-> 70, shotsOnTargetHome |-> 8, shotsOnTargetAway |-> 0,
      cornersHome |-> 6, cornersAway |-> 0],
     [possessionHome |-> 30, shotsOnTargetHome |-> 0, shotsOnTargetAway |-> 4,
      cornersHome |-> 0, cornersAway |-> 3],
     [possessionHome |-> 50, shotsOnTargetHome |-> 6, shotsOnTargetAway |-> 6,
      cornersHome |-> 5, cornersAway |-> 5]}

EventLists ==
    {<<>>,
     <<[type |-> "Corner", home |-> TRUE, elapsed |-> 24]>>,
     <<[type |-> "Shot", home |-> FALSE, elapsed |-> 40],
       [type |-> "Goal", home |-> FALSE, elapsed |-> 44],
       [type |-> "Card", home |-> TRUE, elapsed |-> 46],
       [type |-> "Corner", home |-> FALSE, elapsed |-> 48],
       [type |-> "Subst", home |-> TRUE, elapsed |-> 50]>>}

FuMarkets == MarketSet \cup {"handicap"}

\* The values the estimator yields: probabilities, and numbers out of range.
MlValues == {0, 2500, 5000, 8000, 10000, -5000, 15000}

MlBehaviours ==
    {NoModel, [kind |-> "throws", value |-> 0], [kind |-> "nan", value |-> 0]}
        \cup {[kind |-> "value", value |-> v] : v \in MlValues}

FuIdle ==
    /\ fuMarket = "nextGoal"
    /\ fuSnap = [minute |-> 0, scoreHome |-> 0, scoreAway |-> 0,
                 stats |-> NoStatistics, events |-> <<>>]
    /\ fuMl = NoModel
    /\ fuPhase = "idle"
    /\ fuRules = DefaultPrediction
    /\ fuRet = DefaultPrediction

FuInputs ==
    /\ fuMarket \in FuMarkets
    /\ \E minute \in Minutes, scoreHome \in 0..MaxGoals, scoreAway \in 0..MaxGoals,
          stats \in Statistics, events \in EventLists :
          fuSnap = [minute |-> minute, scoreHome |-> scoreHome, scoreAway |-> scoreAway,
                    stats |-> stats, events |-> events]
    /\ fuMl \in MlBehaviours
    /\ fuPhase = "input"
    /\ fuRules = DefaultPrediction
    /\ fuRet = DefaultPrediction

\* One predict(fuMarket, fuSnap) call; the rule engine's answer is kept too.
Predict ==
    /\ fuPhase = "input"
    /\ fuPhase' = "done"
    /\ fuRules' = evaluate(fuMarket, fuSnap)
    /\ fuRet' = predict(fuMarket, fuSnap, fuMl)
    /\ UNCHANGED <<fuMarket, fuSnap, fuMl>>
    /\ UNCHANGED <<detVars, predVars, ctlVars, selVars, liveVars, updVars, apiVars>>

FuNext == Predict

(***************************************************************************)
(* MatchSelector.selectMatchesToMonitor and the weights of app-config.     *)
(* Relevance and potential scores are whole numbers 0..10, weights are in  *)
(* tenths (0.7 -> 7), so a final score is in tenths of a point.            *)
(***************************************************************************)
planLimits == [free |-> 3, insider |-> 8, estratega |-> 15]

\* MatchSelector.weights, set in the constructor.
weights == [relevance |-> 7, potential |-> 3]

\* app-config, lines 159-169: the configured weights as the module exports
\* them, as fractions of `sum` (they are divided by their sum when
\* |relevance + potential - 1| > 0.001).
normalizedWeights(config) ==
    IF config.relevance + config.potential # 10
    THEN [relevance |-> config.relevance, potential |-> config.potential,
          sum |-> config.relevance + config.potential]
    ELSE [relevance |-> config.relevance, potential |-> config.potential, sum |-> 10]

\* selectMatchesToMonitor, lines 209-213.
finalScore(match) ==
    match.relevance * weights.relevance + match.potential * weights.potential

withScores(match) ==
    [id |-> match.id, relevance |-> match.relevance, potential |-> match.potential,
     final |-> finalScore(match)]

\* Array.prototype.sort with (a, b) => b.scores.final - a.scores.final: a
\* stable sort, descending by final score.
RECURSIVE insertByFinal(_, _)
insertByFinal(m, sorted) ==
    IF sorted = <<>> THEN <<m>>
    ELSE IF Head(sorted).final >= m.final
         THEN <<Head(sorted)>> \o insertByFinal(m, Tail(sorted))
         ELSE <<m>> \o sorted

RECURSIVE sortByFinal(_)
sortByFinal(ms) ==
    IF ms = <<>> THEN <<>>
    ELSE LET n == Len(ms) IN insertByFinal(ms[n], sortByFinal(SubSeq(ms, 1, n - 1)))

\* A ranking that leaves the matches in the order they came in.
rankMatches_Unsorted(matchesWithScores) == matchesWithScores

\* selectMatchesToMonitor, lines 227-229.
rankMatches(matchesWithScores) == sortByFinal(matchesWithScores)

\* selectMatchesToMonitor, line 232.
limitOf(userPlan) ==
    IF userPlan \in DOMAIN planLimits THEN planLimits[userPlan] ELSE planLimits.free

\* selectMatchesToMonitor (no call of it throws here).
selectMatchesToMonitor(availableMatches, userPlan) ==
    IF Len(availableMatches) = 0 THEN <<>>
    ELSE LET matchesWithScores == [i \in DOMAIN availableMatches |->
                                       withScores(availableMatches[i])]
             sortedMatches == rankMatches(matchesWithScores)
             limit == limitOf(userPlan)
         IN  SubSeq(sortedMatches, 1, Min2(limit, Len(sortedMatches)))

\* At most MaxMatches matches are available to a selection.
MaxMatches == 16

\* The scores of the available matches: match i of pattern g has relevance
\* (g.a * i + g.b) % 11 and potential (g.c * i + g.d) % 11.
ScorePatterns ==
    {[a |-> a, b |-> b, c |-> c, d |-> 2] : a \in {0, 3, 7}, b \in {0, 5}, c \in {0, 4}}

matchesOf(n, g) ==
    [i \in 1..n |-> [id |-> i, relevance |-> (g.a * i + g.b) % 11,
                     potential |-> (g.c * i + g.d) % 11]]

SelPlans == Plans \cup {"vip"}

\* matches.selectionWeights as written in the configuration, in tenths.
ConfiguredWeights ==
    {[relevance |-> 7, potential |-> 3], [relevance |-> 6, potential |-> 6],
     [relevance |-> 2, potential |-> 8]}

SelIdle ==
    /\ selMatches = <<>>
    /\ selPlan = "free"
    /\ selConfig = [relevance |-> 7, potential |-> 3]
    /\ selPhase = "idle"
    /\ selOut = <<>>

SelInputs ==
    /\ \E n \in 0..MaxMatches, g \in ScorePatterns : selMatches = matchesOf(n, g)
    /\ selPlan \in SelPlans
    /\ selConfig \in ConfiguredWeights
    /\ selPhase = "input"
    /\ selOut = <<>>

\* One selectMatchesToMonitor(selPlan) call.
Select ==
    /\ selPhase = "input"
    /\ selPhase' = "done"
    /\ selOut' = selectMatchesToMonitor(selMatches, selPlan)
    /\ UNCHANGED <<selMatches, selPlan, selConfig>>
    /\ UNCHANGED <<detVars, predVars, ctlVars, fuVars, liveVars, updVars, apiVars>>

SelNext == Select

(***************************************************************************)
(* GoldenMomentDetector.getMatchLiveData                                   *)
(***************************************************************************)
\* How a call to the repository or to the API ends: with a value, with
\* null, or with an exception.
Outcomes == {"found", "none", "throws"}

\* getMatchLiveData: "combined" for the combined snapshot, "stored" for the
\* stored one, "null" for null.
getMatchLiveData(outcome) ==
    IF outcome.stored = "throws" THEN "null"
    ELSE IF outcome.info = "throws" THEN "null"
    ELSE IF outcome.info = "none"
         THEN IF outcome.stored = "found" THEN "stored" ELSE "null"
    ELSE IF outcome.stats = "throws" \/ outcome.events = "throws" \/ outcome.odds = "throws" THEN "null"
    ELSE IF outcome.save = "throws" THEN "null"
    ELSE "combined"

LiveIdle ==
    /\ liveIn = [stored |-> "none", info |-> "none", stats |-> "none", events |-> "none",
                 odds |-> "none", save |-> "found"]
    /\ livePhase = "idle"
    /\ liveOut = "null"

LiveInputs ==
    /\ liveIn \in [stored : Outcomes, info : Outcomes, stats : Outcomes, events : Outcomes,
                   odds : Outcomes, save : {"found", "throws"}]
    /\ livePhase = "input"
    /\ liveOut = "null"

\* One getMatchLiveData call.
GetLiveData ==
    /\ livePhase = "input"
    /\ livePhase' = "done"
    /\ liveOut' = getMatchLiveData(liveIn)
    /\ UNCHANGED liveIn
    /\ UNCHANGED <<detVars, predVars, ctlVars, fuVars, selVars, updVars, apiVars>>

LiveNext == GetLiveData

(***************************************************************************)
(* One selection pass of runMonitoringCycle (lines 139-149) on every       *)
(* active set: updateActiveMonitoring, then processMatch for every entry   *)
(* up to its first await.                                                  *)
(***************************************************************************)
\* The status a monitoring object can carry: the one the selector reported
\* when the entry was made.
StoredStatuses == {"NS"} \cup LiveStatuses

\* The seconds since the last check of an entry.
CheckAges == {0, 29, 30, 59, 60, 119, 120, 299, 300}

Priorities == 1..10

\* match.scores.final of a selected match (0: no score).
UpdFinals == 0..10

\* sentAlerts of an entry: empty, or one alert sent 100 s ago.
UpdSentAlerts ==
    {<<>>, [k \in {<<"nextGoal", "estratega">>} |-> StartTime - 100]}

UpdEntries ==
    {[used |-> TRUE, id |-> "f1", status |-> st, lastCheck |-> StartTime - age,
      sentAlerts |-> sent, priority |-> pr] :
        st \in StoredStatuses, age \in CheckAges, sent \in UpdSentAlerts, pr \in Priorities}

\* No selection pass is under way.
UpdIdle ==
    /\ updBefore = [am |-> [f \in Fixtures |-> 0], ob |-> [o \in ObjIds |-> NoObj]]
    /\ updSel = {}
    /\ updFinal = [f \in Fixtures |-> 0]

\* A running system whose interval timer has just started a cycle; the active
\* set is empty or holds an entry for the fixture.
UpdInputs ==
    /\ now = StartTime
    /\ status \in [Fixtures -> StoredStatuses \cup {"FT"}]
    /\ isRunning = TRUE
    /\ monitoringInterval = 1
    /\ starts = [s \in StartIds |-> [pc |-> "ticking", due |-> StartTime + cycleInterval]]
    /\ \/ /\ activeMonitoring = [f \in Fixtures |-> 0]
          /\ objs = [o \in ObjIds |-> NoObj]
       \/ /\ activeMonitoring = [f \in Fixtures |-> 1]
          /\ \E e \in UpdEntries : objs = [o \in ObjIds |-> IF o = 1 THEN e ELSE NoObj]
    /\ cycles = [c \in CycleIds |-> IF c = 1 THEN [pc |-> "select", owner |-> 0, sel |-> {}]
                                    ELSE NoCycle]
    /\ tasks = [c \in CycleIds |-> [f \in Fixtures |-> NoTask]]
    /\ timers = {}
    /\ updBefore = [am |-> activeMonitoring, ob |-> objs]
    /\ updSel \in {S \in SUBSET Fixtures : \A f \in S : status[f] # "FT"}
    /\ updFinal \in [Fixtures -> UpdFinals]

UpdNext == \E c \in CycleIds : CycleSelected(c, updSel, updFinal)

(***************************************************************************)
(* checkGoldenMomentsForAllPlans for one entry, on a fixed snapshot        *)
(***************************************************************************)
\* The two markets the snapshot prices.
CheckMarkets == {"nextGoal", "over05"}

CheckSnapshots ==
    {SnapshotOf(CheckMarkets, f) : f \in [CheckMarkets -> PricedMarkets]}

\* sentAlerts of the entry: empty, or one alert of a market and plan, sent
\* 100 s ago (in cooldown) or the whole cooldown ago.
CheckSentAlerts ==
    {<<>>} \cup
    {[k \in {<<m, plans[p]>>} |-> StartTime - age] :
        m \in CheckMarkets, p \in DOMAIN plans, age \in {100, cooldown}}

\* The subscribers of each plan in this run.
CheckSubscribers == 1

\* processMatch has found the entry due and awaits detectGoldenMoment for the
\* first plan; detSnap is the live data of the fixture during the check.
CheckInputs ==
    /\ now = StartTime
    /\ status = [f \in Fixtures |-> "1H"]
    /\ isRunning = TRUE
    /\ monitoringInterval = 1
    /\ starts = [s \in StartIds |-> [pc |-> "ticking", due |-> StartTime + cycleInterval]]
    /\ activeMonitoring = [f \in Fixtures |-> 1]
    /\ \E sent \in CheckSentAlerts :
          objs = [o \in ObjIds |->
                    IF o = 1
                    THEN [used |-> TRUE, id |-> "f1", status |-> "1H", lastCheck |-> StartTime,
                          sentAlerts |-> sent, priority |-> 5]
                    ELSE NoObj]
    /\ cycles = [c \in CycleIds |->
                    IF c = 1 THEN [pc |-> "join", owner |-> 0, sel |-> Fixtures] ELSE NoCycle]
    /\ tasks = [c \in CycleIds |-> [f \in Fixtures |->
                    IF c = 1 THEN [NoTask EXCEPT !.pc = "detect", !.plan = 1, !.obj = 1]
                    ELSE NoTask]]
    /\ timers = {}
    /\ detSnap \in CheckSnapshots
    /\ detPlan = "free"
    /\ detPhase = "idle"
    /\ detOpps = <<>>
    /\ detFiltered = <<>>
    /\ detResult = <<>>

CheckNext ==
    \E c \in CycleIds, f \in Fixtures :
        \/ TaskDetect(c, f, detSnap)
        \/ \E ok \in BOOLEAN : TaskGenFinish(c, f, ok, CheckSubscribers)

(***************************************************************************)
(* FootballApiClient.makeRequest and its daily counter                     *)
(***************************************************************************)
\* this.limits.dailyLimit, and how many calls, days and requests are followed.
dailyLimit == 2

MaxApiCalls == 2

MaxDay == 1

MaxIssued == 4

ApiCallIds == 1..MaxApiCalls

\* The state the constructor of FootballApiClient leaves, on day 0.
ApiConstructed ==
    /\ requestCount = [daily |-> 0, lastReset |-> 0]
    /\ requests = [c \in ApiCallIds |-> [pc |-> "idle", ret |-> "none"]]

ApiIdle ==
    /\ ApiConstructed
    /\ today = 0
    /\ issued = 0

\* checkLimits: the answer and the counter it leaves.
checkLimits(count, day) ==
    IF day > count.lastReset
    THEN [ok |-> TRUE, requestCount |-> [daily |-> 0, lastReset |-> day]]
    ELSE [ok |-> count.daily < dailyLimit, requestCount |-> count]

\* updateRequestCount.
updateRequestCount(count) == [count EXCEPT !.daily = @ + 1]

\* makeRequest, lines 52-59: the limit is checked and the request is sent, or
\* null is returned.
CallMakeRequest(c) ==
    /\ requests[c].pc = "idle"
    /\ LET limits == checkLimits(requestCount, today)
       IN  /\ requestCount' = limits.requestCount
           /\ IF limits.ok
              THEN /\ issued < MaxIssued
                   /\ issued' = issued + 1
                   /\ requests' = [requests EXCEPT ![c] = [pc |-> "get", ret |-> "none"]]
              ELSE /\ requests' = [requests EXCEPT ![c] = [pc |-> "idle", ret |-> "null"]]
                   /\ UNCHANGED issued
    /\ UNCHANGED today
    /\ UNCHANGED <<detVars, predVars, ctlVars, fuVars, selVars, liveVars, updVars>>

\* makeRequest, lines 59-74: the request settles, with status 200 and data,
\* with another response, or with an error.
RequestSettles(c, outcome) ==
    /\ requests[c].pc = "get"
    /\ requestCount' = IF outcome = "throws" THEN requestCount
                       ELSE updateRequestCount(requestCount)
    /\ requests' = [requests EXCEPT ![c] =
                       [pc |-> "idle", ret |-> IF outcome = "ok" THEN "data" ELSE "null"]]
    /\ UNCHANGED <<today, issued>>
    /\ UNCHANGED <<detVars, predVars, ctlVars, fuVars, selVars, liveVars, updVars>>

\* Midnight: the next calendar day begins.
NextDay ==
    /\ today < MaxDay
    /\ today' = today + 1
    /\ issued' = 0
    /\ UNCHANGED <<requestCount, requests>>
    /\ UNCHANGED <<detVars, predVars, ctlVars, fuVars, selVars, liveVars, updVars>>

ApiNext ==
    \/ \E c \in ApiCallIds :
          \/ CallMakeRequest(c)
          \/ \E outcome \in {"ok", "bad", "throws"} : RequestSettles(c, outcome)
    \/ NextDay

DetInputs ==
    /\ detPlan \in Plans
    /\ detPhase = "input"
    /\ detOpps = <<>>
    /\ detFiltered = <<>>
    /\ detResult = <<>>

DetIdle ==
    /\ detSnap = NoSnapshot
    /\ detPlan = "free"
    /\ detPhase = "idle"
    /\ detOpps = <<>>
    /\ detFiltered = <<>>
    /\ detResult = <<>>

PredIdle ==
    /\ PredictorConstructed
    /\ modelFiles = {}

\* Nothing is called on the predictor's value path, the selector or the
\* live-data retrieval.
PureIdle == FuIdle /\ SelIdle /\ LiveIdle /\ UpdIdle /\ ApiIdle

DetInit ==
    /\ PredIdle
    /\ CtlIdle
    /\ PureIdle
    /\ \/ detSnap = NoSnapshot
       \/ \E S \in PricedSets : \E f \in [S -> PricedMarkets] :
             detSnap = SnapshotOf(S, f)
    /\ DetInputs

\* One priced market with expected value 0.32 and every confidence from 0 to 1.
TierConfidences == 0..100

TierInit ==
    /\ \E m \in MarketSet : \E c \in TierConfidences :
          detSnap = SnapshotOf({m},
              [x \in {m} |-> [pred |-> [present |-> TRUE, probability |-> 60,
                                        confidence |-> c],
                              prices |-> <<220>>]])
    /\ DetInputs
    /\ PredIdle
    /\ CtlIdle
    /\ PureIdle

Detect ==
    /\ detPhase = "input"
    /\ detPhase' = "done"
    /\ detOpps' = IF detSnap.avail THEN evaluateAllMarkets(detSnap) ELSE <<>>
    /\ detFiltered' = IF detSnap.avail
                      THEN filterByConfidence(evaluateAllMarkets(detSnap), detPlan)
                      ELSE <<>>
    /\ detResult' = detectGoldenMoment(detSnap, detPlan)
    /\ UNCHANGED <<detSnap, detPlan>>
    /\ UNCHANGED predVars
    /\ UNCHANGED <<ctlVars, fuVars, selVars, liveVars, updVars, apiVars>>

DetNext == Detect

SpecDet == DetInit /\ [][DetNext]_vars

SpecTier == TierInit /\ [][DetNext]_vars

PredInit == PredInputs /\ DetIdle /\ CtlIdle /\ PureIdle

SpecPred == PredInit /\ [][PredNext]_vars

CtlInit == CtlIdle /\ DetIdle /\ PredIdle /\ PureIdle

SpecCtl == CtlInit /\ [][CtlNext]_vars

FuInit == FuInputs /\ SelIdle /\ LiveIdle /\ DetIdle /\ PredIdle /\ CtlIdle /\ UpdIdle /\ ApiIdle

SpecFuse == FuInit /\ [][FuNext]_vars

SelInit == SelInputs /\ FuIdle /\ LiveIdle /\ DetIdle /\ PredIdle /\ CtlIdle /\ UpdIdle /\ ApiIdle

SpecSel == SelInit /\ [][SelNext]_vars

LiveInit == LiveInputs /\ FuIdle /\ SelIdle /\ DetIdle /\ PredIdle /\ CtlIdle /\ UpdIdle /\ ApiIdle

SpecLive == LiveInit /\ [][LiveNext]_vars

UpdInit == UpdInputs /\ DetIdle /\ PredIdle /\ FuIdle /\ SelIdle /\ LiveIdle /\ ApiIdle

SpecUpd == UpdInit /\ [][UpdNext]_vars

CheckInit == CheckInputs /\ PredIdle /\ PureIdle

SpecCheck == CheckInit /\ [][CheckNext]_vars

ApiInit == ApiIdle /\ DetIdle /\ PredIdle /\ CtlIdle /\ FuIdle /\ SelIdle /\ LiveIdle /\ UpdIdle

SpecApi == ApiInit /\ [][ApiNext]_vars

(***************************************************************************)
(* Properties of the detector                                              *)
(***************************************************************************)
SeqRange(q) == {q[i] : i \in DOMAIN q}

\* The largest non-zero price of a list, 0 when it has none.
MaxPrice(prices) ==
    IF \A i \in DOMAIN prices : prices[i] = 0 THEN 0
    ELSE CHOOSE x \in SeqRange(prices) : \A y \in SeqRange(prices) : y <= x

\* C3: detectGoldenMoment returns none or exactly one opportunity, and the one
\* it returns has the largest expected value of the opportunities that passed
\* the minimum-EV filter and the plan's confidence filter.
C3_AtMostOneBestEV ==
    detPhase = "done" =>
        /\ Len(detResult) <= 1
        /\ detResult # <<>> =>
              /\ detResult[1] \in SeqRange(detFiltered)
              /\ \A o \in SeqRange(detFiltered) :
                    o.expectedValue <= detResult[1].expectedValue

\* Two markets passed both filters with different expected values, the better
\* one later in the market order.
C3_Witness ==
    /\ detPhase = "done"
    /\ Len(detResult) = 1
    /\ Len(detFiltered) >= 2
    /\ detFiltered[1].expectedValue < detFiltered[2].expectedValue

\* C4: no opportunity with probability * bestOdds - 1 < 0.10, and no market
\* without odds, appears in the output of detectGoldenMoment.
C4_EVFilter ==
    detPhase = "done" =>
        \A o \in SeqRange(detResult) :
            LET in == detSnap.mk[o.market]
                best == MaxPrice(in.prices)
            IN  /\ best # 0
                /\ in.pred.probability * best - 10000 >= 1000
                /\ o.expectedValue = in.pred.probability * best - 10000

\* A market with expected value 0.08 clears the plan's confidence bar and a
\* market with expected value 0.32 is returned instead.
C4_Witness ==
    /\ detPhase = "done"
    /\ detResult # <<>>
    /\ \E m \in MarketSet :
          /\ detSnap.mk[m].pred.present
          /\ detSnap.mk[m].pred.confidence >= 85
          /\ detSnap.mk[m].pred.probability * MaxPrice(detSnap.mk[m].prices) = 10800
          /\ detResult[1].market # m

ClaimedThreshold(plan) ==
    CASE plan = "free" -> 85
      [] plan = "insider" -> 75
      [] plan = "estratega" -> 65

\* C5: the tier filter keeps an opportunity with confidence C for tier T if and
\* only if C >= threshold[T], with free = 0.85, insider = 0.75, estratega = 0.65.
C5_TierGating ==
    detPhase = "done" =>
        \A o \in SeqRange(detOpps) :
            (o \in SeqRange(detFiltered)) <=> (o.confidence >= ClaimedThreshold(detPlan))

\* Confidence 0.80 is offered to the free tier and is not kept.
C5_Witness ==
    /\ detPhase = "done"
    /\ detPlan = "free"
    /\ \E o \in SeqRange(detOpps) : o.confidence = 80
    /\ detFiltered = <<>>

(***************************************************************************)
(* Properties of the model loading                                         *)
(***************************************************************************)
LoadsInFlight == Cardinality({c \in CallIds : calls[c].pc = "loading"})

\* C10: over every sequence and interleaving of predict() and loadModels()
\* calls the body of the model load runs at most once: never two loads in
\* flight at once, and no new load after one attempt has completed.
C10_LoadBodyAtMostOnce ==
    /\ LoadsInFlight <= 1
    /\ loadBodyRuns <= 1

(***************************************************************************)
(* Properties of the controller                                            *)
(***************************************************************************)
\* The delivery timers a step schedules for the subscribers of an alert.
NewDeliveries == {t \in timers' \ timers : t.stage = "pre"}

\* The instant at which a pending first-stage delivery was scheduled.
dispatchedAt(t) == t.due - planDelays[t.plan]

\* C1: for one fixture, an alert for (market M, tier T) is not dispatched
\* again less than 15 minutes after an alert for (M, T) was dispatched: no
\* delivery for (fixture, M, T) is scheduled while an earlier one, scheduled
\* less than the cooldown ago, is still waiting for its delay.
C1_OneDispatchPerCooldown ==
    [][\A t \in NewDeliveries : \A u \in timers :
          (u.stage = "pre" /\ u.f = t.f /\ u.market = t.market /\ u.plan = t.plan)
              => now - dispatchedAt(u) >= cooldown]_vars

\* The cycles whose processMatch has an alert for (entry o, market, plan) past
\* the isRecentlyAlerted check and not yet recorded in sentAlerts.
Dispatching(o, market, plan) ==
    {c \in CycleIds : \E f \in Fixtures :
        /\ tasks[c][f].pc = "gen"
        /\ tasks[c][f].obj = o
        /\ tasks[c][f].market = market
        /\ tasks[c][f].plan = plan}

\* C2: under every interleaving of overlapping cycles no second cycle reads
\* the sentAlerts of an entry between another cycle's isRecentlyAlerted check
\* and its recording of the send: at most one cycle at a time is dispatching
\* the same (entry, market, tier).
C2_CheckAndRecordSerialized ==
    \A o \in ObjIds, m \in MarketSet, p \in DOMAIN plans :
        Cardinality(Dispatching(o, m, p)) <= 1

\* C6: the monitoring cycle that finds a watched fixture out of the live
\* statuses and not returned by the selector removes it from the active set.
C6_EndedAndUnselectedIsDropped ==
    [][\A c \in CycleIds, f \in Fixtures :
          (/\ cycles[c].pc = "select"
           /\ cycles'[c].pc = "join"
           /\ status[f] \notin LiveStatuses
           /\ f \notin cycles'[c].sel)
              => activeMonitoring'[f] = 0]_vars

\* C7: a timer tick that finds a cycle still running starts no further one, or
\* the cycles running at once stay below the bound: the invocations never take
\* every slot the model gives them.
C7_ConcurrentCyclesBounded ==
    Cardinality(RunningCycles) < MaxCycles

\* C8: a delivery scheduled for a fixture that has since left the active set
\* (dropped by updateActiveMonitoring or cleared by stop()) is cancelled: no
\* delivery timer fires for a fixture that is not in the active set.
C8_DroppedFixtureDeliveryCancelled ==
    [][\A t \in timers : t \notin timers' => activeMonitoring[t.f] # 0]_vars

\* C9: generateAndSendAlert schedules the deliveries and returns without
\* waiting for the plan's delay: no processMatch, and so no cycle, is ever
\* held until a later instant by a dispatch.
C9_CycleNeverWaitsForDelay ==
    \A c \in CycleIds, f \in Fixtures : tasks[c][f].ready <= now

\* A delivery is still waiting for its plan's delay while the cycle that
\* scheduled it has completed.
C9_Witness ==
    \E t \in timers :
        /\ t.stage = "pre"
        /\ t.due > now
        /\ cycles[t.by].pc = "free"
        /\ \A c \in CycleIds : cycles[c].pc = "free"

\* C11: a predict() or loadModels() call that arrives while a model load is
\* in flight returns only after that load has finished, and a predict() call
\* then uses the estimator the load made available for its market: no call
\* returns while a load is in flight, and no predict() returns the rule
\* prediction alone for a market whose model can be loaded.
C11_CallersAwaitLoadInFlight ==
    [][\A c \in CallIds :
          (calls[c].pc # "done" /\ calls'[c].pc = "done")
              => /\ ~isLoadingModels'
                 /\ (calls'[c].kind = "predict" /\ calls'[c].ret = "rules")
                        => calls[c].market \notin modelFiles]_vars

\* The predict() calls that have returned.
ReturnedPredicts == {c \in CallIds : calls[c].kind = "predict" /\ calls[c].pc = "done"}

\* C18: two predict calls for the same market on the same snapshot, with no
\* reload of the models in between (at most one load was ever started),
\* return the same prediction.
C18_PredictIdempotent ==
    loadBodyRuns <= 1 =>
        \A c1, c2 \in ReturnedPredicts :
            calls[c1].market = calls[c2].market => calls[c1].ret = calls[c2].ret

(***************************************************************************)
(* Properties of the predictor's values and of the rule engine             *)
(***************************************************************************)
\* The estimator's value is not a probability: NaN, or a number outside [0, 1].
InvalidMl(ml) ==
    \/ ml.kind = "nan"
    \/ ml.kind = "value" /\ (ml.value < 0 \/ ml.value > Unit)

\* C12: when the learned estimator of the market throws or yields a value
\* that is not a probability in [0, 1], predict returns exactly the rule
\* engine's prediction for the call.
C12_InvalidEstimatorFallsBack ==
    (fuPhase = "done" /\ (fuMl.kind = "throws" \/ InvalidMl(fuMl))) => fuRet = fuRules

InUnitRange(prediction) ==
    /\ ~prediction.nan
    /\ 0 <= prediction.probability /\ prediction.probability <= Unit
    /\ 0 <= prediction.confidence /\ prediction.confidence <= Unit

\* C13: the predictions Predictor.predict and RuleEngine.evaluate return have
\* probability and confidence in [0, 1], for every market and snapshot.
C13_PredictionsInUnitRange ==
    fuPhase = "done" => InUnitRange(fuRet) /\ InUnitRange(fuRules)

\* The line X of an over-X.5 market.
OverLine == [over05 |-> 0, over15 |-> 1, over25 |-> 2]

\* C14: RuleEngine.evaluate answers probability 1.0 and confidence 1.0 for an
\* over-X.5 market once the goals of both teams exceed X, and for btts once
\* both teams have scored, whatever the minute, statistics and events.
C14_ResolvedMarketsAreCertain ==
    fuPhase = "done" =>
        /\ (fuMarket \in DOMAIN OverLine
              /\ fuSnap.scoreHome + fuSnap.scoreAway > OverLine[fuMarket])
               => (fuRules.probability = Unit /\ fuRules.confidence = Unit /\ ~fuRules.nan)
        /\ (fuMarket = "btts" /\ fuSnap.scoreHome > 0 /\ fuSnap.scoreAway > 0)
               => (fuRules.probability = Unit /\ fuRules.confidence = Unit /\ ~fuRules.nan)

\* over 2.5 is evaluated with exactly three goals, in added time, on a snapshot
\* with statistics and events.
C14_Witness ==
    /\ fuPhase = "done"
    /\ fuMarket = "over25"
    /\ fuSnap.scoreHome + fuSnap.scoreAway = 3
    /\ fuSnap.minute = 95
    /\ fuSnap.stats # NoStatistics
    /\ fuSnap.events # <<>>
    /\ fuRules.probability = Unit

\* C15: with both teams on the scoresheet the btts prediction predict gives
\* the detector has probability 1.0 and a confidence that passes the filter
\* of every tier, with or without a learned estimator for btts.
C15_BttsScoredClearsEveryTier ==
    (fuPhase = "done" /\ fuMarket = "btts" /\ fuSnap.scoreHome > 0 /\ fuSnap.scoreAway > 0
        /\ fuMl.kind \in {"nomodel", "value"} /\ ~InvalidMl(fuMl))
        => /\ ~fuRet.nan
           /\ fuRet.probability = Unit
           /\ \A plan \in Plans :
                 keepsConfidence(fuRet.confidence, thresholdOf(plan) * 100)

(***************************************************************************)
(* Properties of the selector                                              *)
(***************************************************************************)
ClaimedQuota == [free |-> 3, insider |-> 8, estratega |-> 15]

\* The final score of an available match with the weights 0.7 and 0.3, in
\* tenths.
ClaimedFinal(match) == 7 * match.relevance + 3 * match.potential

ReturnedIds == {selOut[i].id : i \in DOMAIN selOut}

\* C16: selectMatchesToMonitor(tier) returns at most quota[tier] of the
\* available fixtures, in non-increasing order of final score, and each of
\* them scores at least as much as every available fixture it left out.
C16_QuotaAndRanking ==
    selPhase = "done" =>
        /\ selPlan \in DOMAIN ClaimedQuota => Len(selOut) <= ClaimedQuota[selPlan]
        /\ Cardinality(ReturnedIds) = Len(selOut)
        /\ \A i \in DOMAIN selOut :
              /\ selOut[i].id \in DOMAIN selMatches
              /\ selOut[i].final = ClaimedFinal(selMatches[selOut[i].id])
        /\ \A i, j \in DOMAIN selOut : i < j => selOut[i].final >= selOut[j].final
        /\ \A i \in DOMAIN selOut : \A k \in DOMAIN selMatches :
              k \notin ReturnedIds => selOut[i].final >= ClaimedFinal(selMatches[k])

\* Sixteen fixtures are available to the estratega plan, the best of them is
\* not the first, and one that scores less than all fifteen returned is left
\* out.
C16_Witness ==
    /\ selPhase = "done"
    /\ selPlan = "estratega"
    /\ Len(selMatches) = 16
    /\ Len(selOut) = 15
    /\ selOut[1].id # 1
    /\ \E k \in DOMAIN selMatches :
          /\ k \notin ReturnedIds
          /\ ClaimedFinal(selMatches[k]) < selOut[15].final

\* C17: the final scores are those of the configured weights renormalized to
\* sum 1: final = (relevance * wr + potential * wp) / (wr + wp) for the
\* configured wr and wp, whatever their magnitudes.
C17_FinalUsesNormalizedConfig ==
    selPhase = "done" =>
        \A i \in DOMAIN selOut :
            LET w == normalizedWeights(selConfig)
            IN  selOut[i].final * w.sum
                    = (selOut[i].relevance * w.relevance
                          + selOut[i].potential * w.potential) * 10

(***************************************************************************)
(* Properties of the detector's error handling                             *)
(***************************************************************************)
\* C19: a market whose evaluation fails does not stop evaluateAllMarkets:
\* every market with a prediction, odds and an expected value of at least
\* 0.10 is in the list it returns.
C19_FailureDoesNotAbort ==
    (detPhase = "done" /\ detSnap.avail) =>
        \A m \in MarketSet :
            (/\ detSnap.mk[m].pred.present
             /\ MaxPrice(detSnap.mk[m].prices) # 0
             /\ detSnap.mk[m].pred.probability * MaxPrice(detSnap.mk[m].prices) >= 11000)
                => \E o \in SeqRange(detOpps) : o.market = m

\* The evaluation of a priced market fails and a later market of the list is
\* returned as an opportunity.
C19_Witness ==
    /\ detPhase = "done"
    /\ \E i, j \in DOMAIN markets :
          /\ i < j
          /\ ~detSnap.mk[markets[i]].pred.present
          /\ detSnap.mk[markets[i]].prices # <<>>
          /\ \E o \in SeqRange(detOpps) : o.market = markets[j]

\* C20: getMatchLiveData returns a snapshot whenever the fresh fixture
\* information or the stored snapshot is available and no call to the data
\* source throws, also when getMatchById or saveMatch fails.
C20_PartialSnapshotReturned ==
    (/\ livePhase = "done"
     /\ liveIn.info # "throws" /\ liveIn.stats # "throws"
     /\ liveIn.events # "throws" /\ liveIn.odds # "throws"
     /\ (liveIn.info = "found" \/ liveIn.stored = "found"))
        => liveOut # "null"

(***************************************************************************)
(* Properties of the delivery and of the ranking                           *)
(***************************************************************************)
\* C24: the pre-alert of an alert goes out at the moment the alert is
\* dispatched, and the main alert follows it by the tier's delay: a delivery
\* scheduled by generateAndSendAlert sends its pre-alert at once, for every
\* tier.
C24_PreAlertImmediate ==
    [][\A t \in NewDeliveries : t.due = now]_vars

\* C25: when several opportunities that passed both filters share the largest
\* expected value, detectGoldenMoment returns one of them with the highest
\* confidence.
C25_TieBrokenByConfidence ==
    (detPhase = "done" /\ detResult # <<>>) =>
        \A o \in SeqRange(detFiltered) :
            o.expectedValue = detResult[1].expectedValue
                => o.confidence <= detResult[1].confidence

\* C26: once stop() has returned no monitoring cycle is started until start()
\* is called again: while the system is stopped no recurring cycle timer is
\* installed.
C26_StoppedHasNoCycleTimer ==
    ~isRunning => \A s \in StartIds : starts[s].pc # "ticking"

(***************************************************************************)
(* The fused confidence and the tiers                                      *)
(***************************************************************************)
\* The prediction as the detector's inputs carry it, in percent.
AsDetectorInput(prediction) ==
    [present |-> TRUE, probability |-> prediction.probability \div 100,
     confidence |-> prediction.confidence \div 100]

\* C29: when an estimator is loaded for a market and yields a probability in
\* [0,1], the confidence predict returns is at most 0.63, under the
\* threshold of every tier, and detectGoldenMoment returns no opportunity in
\* that market whatever the plan and the odds.
C29_FusedConfidenceBelowEveryTier ==
    (/\ fuPhase = "done"
     /\ fuMarket \in MarketSet
     /\ fuMl.kind = "value" /\ fuMl.value >= 0 /\ fuMl.value <= Unit)
        => /\ ~fuRet.nan
           /\ fuRet.confidence <= 6300
           /\ \A plan \in Plans : fuRet.confidence < ClaimedThreshold(plan) * 100
           /\ \A plan \in Plans \cup {"vip"}, prices \in PriceLists :
                 detectGoldenMoment(
                     SnapshotOf({fuMarket},
                                [m \in {fuMarket} |->
                                    [pred |-> AsDetectorInput(fuRet), prices |-> prices]]),
                     plan) = <<>>

\* The estimator and the rule engine both give btts for certain, and the
\* fused confidence is 0.63.
C29_Witness ==
    /\ fuPhase = "done"
    /\ fuMarket = "btts"
    /\ fuMl = [kind |-> "value", value |-> Unit]
    /\ fuRules = Prediction(Unit, Unit)
    /\ fuRet = Prediction(Unit, 6300)

(***************************************************************************)
(* Properties of one selection pass                                        *)
(***************************************************************************)
\* The selection pass of the cycle has run.
PassDone == \E c \in CycleIds : cycles[c].pc = "join" /\ cycles[c].sel = updSel

\* The active set as updateActiveMonitoring leaves it, before processMatch.
Updated == updateEntries(Fixtures, updBefore, updSel, updFinal)

HadEntry(f) == updBefore.am[f] # 0

EntryBefore(f) == updBefore.ob[updBefore.am[f]]

\* C21: updateActiveMonitoring removes an entry if and only if its fixture is
\* not in the new selection and the status the entry carries is none of 1H,
\* 2H, HT; an entry that is kept keeps its lastCheck and its sentAlerts, and
\* a newly selected fixture gets an entry with lastCheck 0 and no sentAlerts.
C21_UpdateRemovesAndKeeps ==
    PassDone =>
        /\ activeMonitoring = Updated.am
        /\ \A f \in Fixtures :
              /\ HadEntry(f) =>
                    /\ Updated.am[f] = 0
                          <=> (f \notin updSel
                                  /\ EntryBefore(f).status \notin {"1H", "2H", "HT"})
                    /\ Updated.am[f] # 0 =>
                          /\ Updated.am[f] = updBefore.am[f]
                          /\ Updated.ob[Updated.am[f]].lastCheck = EntryBefore(f).lastCheck
                          /\ Updated.ob[Updated.am[f]].sentAlerts = EntryBefore(f).sentAlerts
                          /\ objs[activeMonitoring[f]].sentAlerts = EntryBefore(f).sentAlerts
              /\ ~HadEntry(f) =>
                    /\ Updated.am[f] # 0 <=> f \in updSel
                    /\ Updated.am[f] # 0 =>
                          /\ Updated.ob[Updated.am[f]].lastCheck = 0
                          /\ Updated.ob[Updated.am[f]].sentAlerts = <<>>

\* An entry whose fixture has not kicked off and is no longer selected has
\* been removed, its sentAlerts with it.
C21_Witness ==
    /\ PassDone
    /\ updSel = {}
    /\ HadEntry("f1")
    /\ EntryBefore("f1").status = "NS"
    /\ EntryBefore("f1").sentAlerts # <<>>
    /\ activeMonitoring["f1"] = 0

\* C22: a fixture that is in the active set and is returned again by the
\* selector has, after the pass, the final score of that pass as its priority.
C22_PriorityRefreshed ==
    PassDone =>
        \A f \in updSel :
            (HadEntry(f) /\ updFinal[f] # 0)
                => /\ activeMonitoring[f] # 0
                   /\ objs[activeMonitoring[f]].priority = updFinal[f]

ClaimedInterval(priority) ==
    CASE priority >= 9 -> 30
      [] priority >= 7 /\ priority < 9 -> 60
      [] priority >= 5 /\ priority < 7 -> 120
      [] priority < 5 -> 300

\* The processMatch call the cycle made for the entry of f.
ProcessCall(f) == tasks[CHOOSE c \in CycleIds : cycles[c].pc = "join"][f]

\* C23: processMatch checks an entry (lastCheck becomes now and the detector
\* is called, first for estratega) if and only if now - lastCheck is at least
\* the interval of its priority: 30 s from 9 up, 60 s from 7, 120 s from 5,
\* 300 s below; when it skips, the entry is unchanged, the call has returned
\* and nothing is detected or scheduled.
C23_CheckedIffDue ==
    PassDone =>
        \A f \in Fixtures :
            Updated.am[f] # 0 =>
                LET entry == Updated.ob[Updated.am[f]]
                    isDue == now - entry.lastCheck >= ClaimedInterval(entry.priority)
                IN  /\ ProcessCall(f).obj = Updated.am[f]
                    /\ isDue => /\ objs[Updated.am[f]] = [entry EXCEPT !.lastCheck = now]
                                /\ ProcessCall(f).pc = "detect"
                                /\ plans[ProcessCall(f).plan] = "estratega"
                    /\ ~isDue => /\ objs[Updated.am[f]] = entry
                                 /\ ProcessCall(f).pc = "done"
                                 /\ timers = {}

\* An entry of priority 7 checked exactly 60 s ago is checked again.
C23_Witness ==
    /\ PassDone
    /\ HadEntry("f1")
    /\ EntryBefore("f1").priority = 7
    /\ now - EntryBefore("f1").lastCheck = 60
    /\ activeMonitoring["f1"] # 0
    /\ objs[activeMonitoring["f1"]].lastCheck = now
    /\ ProcessCall("f1").pc = "detect"

(***************************************************************************)
(* Properties of checkGoldenMomentsForAllPlans                             *)
(***************************************************************************)
\* C27: a send timestamp is recorded for (market, tier) only when
\* generateAndSendAlert handed the alert to dispatch: when the call returns
\* without having scheduled a delivery to the tier's subscriber, the
\* sentAlerts of the entry are as before.
C27_RecordedOnlyWhenDispatched ==
    [][\A c \in CycleIds, f \in Fixtures :
          (/\ tasks[c][f].pc = "gen"
           /\ tasks'[c][f].pc # "gen"
           /\ NewDeliveries = {})
              => objs'[tasks[c][f].obj].sentAlerts = objs[tasks[c][f].obj].sentAlerts]_vars

\* Market m of the snapshot passes the EV filter and the confidence filter of
\* the plan.
Alertable(snap, m, plan) ==
    /\ snap.avail
    /\ snap.mk[m].pred.present
    /\ MaxPrice(snap.mk[m].prices) # 0
    /\ snap.mk[m].pred.probability * MaxPrice(snap.mk[m].prices) >= 11000
    /\ snap.mk[m].pred.confidence >= ClaimedThreshold(plan)

\* C28: while (market M, tier T) of a fixture is in cooldown, an opportunity
\* in another market of the fixture that passes the EV filter and T's
\* confidence filter, and is not itself in cooldown, is dispatched to T at
\* the check: the detection for T leads to generateAndSendAlert for a market
\* that is not in cooldown.
C28_OtherMarketStillDispatched ==
    [][\A c \in CycleIds, f \in Fixtures :
          (/\ tasks[c][f].pc = "detect"
           /\ tasks'[c][f] # tasks[c][f]
           /\ LET plan == plans[tasks[c][f].plan]
                  entry == objs[tasks[c][f].obj]
              IN  \E m1, m2 \in MarketSet :
                     /\ m1 # m2
                     /\ isRecentlyAlerted(entry, <<m1, plan>>)
                     /\ Alertable(detSnap, m2, plan)
                     /\ ~isRecentlyAlerted(entry, <<m2, plan>>))
              => /\ tasks'[c][f].pc = "gen"
                 /\ ~isRecentlyAlerted(objs[tasks[c][f].obj],
                                       <<tasks'[c][f].market, plans[tasks[c][f].plan]>>)]_vars

(***************************************************************************)
(* Properties of the API client                                            *)
(***************************************************************************)
\* C30: the HTTP requests makeRequest sends upstream within one calendar day
\* are never more than dailyLimit, whatever the interleaving of the calls and
\* whether the requests succeed or fail.
C30_IssuedWithinDailyLimit == issued <= dailyLimit

====
